---------------------------- MODULE Spec2Model ----------------------------
(***************************************************************************)
(* Model of the car diagnostic tool (src/main.rs): the ErrorCode record    *)
(* and its two renderings, the DiagnosticsDatabase index with its load and *)
(* its four queries, the interactive loop and main.                        *)
(*                                                                         *)
(* A Rust String is a sequence of characters, a character is a string of   *)
(* length one.  A text the program builds with push_str / format! is the   *)
(* sequence of its pieces in order: the literals of the source are kept as *)
(* one piece each, the interpolated values contribute their characters.    *)
(***************************************************************************)
EXTENDS Integers, Sequences, FiniteSets, TLC

(***************************************************************************)
(* Bounds of the model.                                                    *)
(***************************************************************************)
\* rows of the data file (after the header)
MaxRows == 3
\* length of possible_causes / recommended_actions of a rendered record
MaxLen == 3

\* number of named columns of an ErrorCode row
NumFields == 6

(***************************************************************************)
(* std::string helpers                                                     *)
(***************************************************************************)
Upper == <<"A", "B", "C", "D", "E", "F", "G", "H", "I", "J", "K", "L", "M",
           "N", "O", "P", "Q", "R", "S", "T", "U", "V", "W", "X", "Y", "Z">>
Lower == <<"a", "b", "c", "d", "e", "f", "g", "h", "i", "j", "k", "l", "m",
           "n", "o", "p", "q", "r", "s", "t", "u", "v", "w", "x", "y", "z">>

\* char::is_whitespace, on the characters the model uses
is_whitespace(c) == c \in {" ", "\t", "\n", "\r"}

\* char::to_lowercase
to_lowercase_char(c) ==
    IF \E i \in 1..Len(Upper) : Upper[i] = c
    THEN Lower[CHOOSE i \in 1..Len(Upper) : Upper[i] = c]
    ELSE c

\* str::to_lowercase
to_lowercase(s) == [i \in 1..Len(s) |-> to_lowercase_char(s[i])]

\* str::contains(&str): pat occurs in s as a contiguous run
contains(s, pat) ==
    \E i \in 0..(Len(s) - Len(pat)) :
        \A j \in 1..Len(pat) : s[i + j] = pat[j]

\* str::ends_with
ends_with(s, suffix) ==
    /\ Len(suffix) <= Len(s)
    /\ \A j \in 1..Len(suffix) : s[Len(s) - Len(suffix) + j] = suffix[j]

RECURSIVE trim_start(_)
trim_start(s) ==
    IF s # <<>> /\ is_whitespace(Head(s)) THEN trim_start(Tail(s)) ELSE s

RECURSIVE trim_end(_)
trim_end(s) ==
    IF s # <<>> /\ is_whitespace(s[Len(s)])
    THEN trim_end(SubSeq(s, 1, Len(s) - 1))
    ELSE s

\* str::trim: leading and trailing whitespace removed
trim(s) == trim_end(trim_start(s))

\* the scan of str::split(char): the pieces between the delimiters, empty ones
\* included; cur is the piece being read
RECURSIVE split_from(_, _, _)
split_from(s, d, cur) ==
    IF s = <<>> THEN <<cur>>
    ELSE IF Head(s) = d THEN <<cur>> \o split_from(Tail(s), d, <<>>)
    ELSE split_from(Tail(s), d, Append(cur, Head(s)))

\* split that drops the empty pieces
split_skip_empty(s, d) == SelectSeq(split_from(s, d, <<>>), LAMBDA x : x # <<>>)

\* str::split(char)
split(s, d) == split_from(s, d, <<>>)

\* str::split_whitespace: the maximal runs of non-whitespace characters
RECURSIVE words_from(_, _)
words_from(s, cur) ==
    IF s = <<>> THEN (IF cur = <<>> THEN <<>> ELSE <<cur>>)
    ELSE IF is_whitespace(Head(s))
         THEN (IF cur = <<>> THEN <<>> ELSE <<cur>>) \o words_from(Tail(s), <<>>)
         ELSE words_from(Tail(s), Append(cur, Head(s)))

split_whitespace(s) == words_from(s, <<>>)

(***************************************************************************)
(* ErrorCode                                                               *)
(***************************************************************************)
\* struct ErrorCode, built from a row's six columns in header order
ErrorCode(row) ==
    [code |-> row[1], description |-> row[2], severity |-> row[3],
     system |-> row[4], possible_causes |-> row[5],
     recommended_actions |-> row[6]]

RECURSIVE text_bullets(_)
text_bullets(segs) ==
    IF segs = <<>> THEN <<>>
    ELSE <<"  - ">> \o trim(Head(segs)) \o <<"\n">> \o text_bullets(Tail(segs))

to_text(e) ==
       <<"Error Code: ">> \o e.code \o <<"\n">>
    \o <<"Description: ">> \o e.description \o <<"\n">>
    \o <<"Severity: ">> \o e.severity \o <<"\n">>
    \o <<"System: ">> \o e.system \o <<"\n">>
    \o <<"\nPossible Causes:\n">>
    \o text_bullets(split(e.possible_causes, "|"))
    \o <<"\nRecommended Actions:\n">>
    \o text_bullets(split(e.recommended_actions, "|"))

RECURSIVE html_items(_)
html_items(segs) ==
    IF segs = <<>> THEN <<>>
    ELSE <<"<li>">> \o trim(Head(segs)) \o <<"</li>\n">> \o html_items(Tail(segs))

to_html(e) ==
       <<"<div class='error-code'>\n">>
    \o <<"<h2>Error Code: ">> \o e.code \o <<"</h2>\n">>
    \o <<"<p><strong>Description:</strong> ">> \o e.description \o <<"</p>\n">>
    \o <<"<p><strong>Severity:</strong> ">> \o e.severity \o <<"</p>\n">>
    \o <<"<p><strong>System:</strong> ">> \o e.system \o <<"</p>\n">>
    \o <<"<h3>Possible Causes:</h3>\n<ul>\n">>
    \o html_items(split(e.possible_causes, "|"))
    \o <<"</ul>\n">>
    \o <<"<h3>Recommended Actions:</h3>\n<ul>\n">>
    \o html_items(split(e.recommended_actions, "|"))
    \o <<"</ul>\n">>
    \o <<"</div>\n">>

(***************************************************************************)
(* DiagnosticsDatabase: errors is a HashMap<String, ErrorCode>, a function *)
(* from the stored codes to their records.                                 *)
(***************************************************************************)
DiagnosticsDatabase_new == [c \in {} |-> c]

\* insert that keeps the value already stored under the key
insert_keep_first(m, k, v) ==
    [c \in DOMAIN m \cup {k} |-> IF c \in DOMAIN m THEN m[c] ELSE v]

\* HashMap::insert: the value under an existing key is replaced
insert(m, k, v) == [c \in DOMAIN m \cup {k} |-> IF c = k THEN v ELSE m[c]]

\* one item of reader.deserialize(): a row deserializes into an ErrorCode
\* when it has a field for each of the header's columns
deserialize(row) ==
    IF Len(row) = NumFields
    THEN [ok |-> TRUE, record |-> ErrorCode(row)]
    ELSE [ok |-> FALSE, record |-> <<>>]

\* the for loop of load_from_csv over the rows from row i on: `result?`
\* returns at the first row that fails, with what was inserted before it
RECURSIVE load_rows(_, _, _)
load_rows(m, rows, i) ==
    IF i > Len(rows) THEN [errors |-> m, ok |-> TRUE]
    ELSE LET result == deserialize(rows[i])
         IN  IF ~result.ok THEN [errors |-> m, ok |-> FALSE]
             ELSE load_rows(insert(m, result.record.code, result.record), rows, i + 1)

\* load_from_csv on a file of the given status and rows
load_from_csv(m, status, rows) ==
    IF status # "ok" THEN [errors |-> m, ok |-> FALSE]
    ELSE load_rows(m, rows, 1)

\* the orders in which HashMap::values may visit the stored records
Orders(m) ==
    {o \in [1..Cardinality(DOMAIN m) -> DOMAIN m] :
        \A i, j \in 1..Cardinality(DOMAIN m) : o[i] = o[j] => i = j}

values(m, order) == [i \in 1..Len(order) |-> m[order[i]]]

\* lookup that folds the case of the key
lookup_error_ignore_case(m, code) ==
    IF \E c \in DOMAIN m : to_lowercase(c) = to_lowercase(code)
    THEN <<m[CHOOSE c \in DOMAIN m : to_lowercase(c) = to_lowercase(code)]>>
    ELSE <<>>

\* Option<&ErrorCode> as a sequence of at most one record
lookup_error(m, code) == IF code \in DOMAIN m THEN <<m[code]>> ELSE <<>>

\* filter that folds the case of the stored field only
list_errors_by_system_exact(m, order, system) ==
    SelectSeq(values(m, order),
              LAMBDA error : to_lowercase(error.system) = system)

list_errors_by_system(m, order, system) ==
    SelectSeq(values(m, order),
              LAMBDA error : to_lowercase(error.system) = to_lowercase(system))

list_errors_by_severity(m, order, severity) ==
    SelectSeq(values(m, order),
              LAMBDA error : to_lowercase(error.severity) = to_lowercase(severity))

\* search that leaves recommended_actions out
search_by_keyword_no_actions(m, order, keyword) ==
    LET keyword_lower == to_lowercase(keyword)
    IN  SelectSeq(values(m, order),
                  LAMBDA error :
                      \/ contains(to_lowercase(error.description), keyword_lower)
                      \/ contains(to_lowercase(error.possible_causes), keyword_lower))

\* search that answers an empty keyword with nothing
search_by_keyword_skip_empty(m, order, keyword) ==
    LET keyword_lower == to_lowercase(keyword)
    IN  SelectSeq(values(m, order),
                  LAMBDA error :
                      /\ keyword # <<>>
                      /\ \/ contains(to_lowercase(error.description), keyword_lower)
                         \/ contains(to_lowercase(error.possible_causes), keyword_lower)
                         \/ contains(to_lowercase(error.recommended_actions), keyword_lower))

search_by_keyword(m, order, keyword) ==
    LET keyword_lower == to_lowercase(keyword)
    IN  SelectSeq(values(m, order),
                  LAMBDA error :
                      \/ contains(to_lowercase(error.description), keyword_lower)
                      \/ contains(to_lowercase(error.possible_causes), keyword_lower)
                      \/ contains(to_lowercase(error.recommended_actions), keyword_lower))

(***************************************************************************)
(* export_to_file: the content written for a path                          *)
(***************************************************************************)
export_content(error, file_path) ==
    IF ends_with(file_path, <<".", "h", "t", "m", "l">>)
    THEN    <<"<!DOCTYPE html>\n<html>\n<head>\n">>
         \o <<"<title>Car Error Code Report</title>\n">>
         \o <<"<style>\n">>
         \o <<"body { font-family: Arial, sans-serif; margin: 20px; }\n">>
         \o <<".error-code { border: 1px solid #ddd; padding: 15px; margin-bottom: 20px; }\n">>
         \o <<"h2 { color: #d9534f; }\n">>
         \o <<"h3 { color: #5bc0de; }\n">>
         \o <<"</style>\n">>
         \o <<"</head>\n<body>\n">>
         \o <<"<h1>Car Error Code Report</h1>\n">>
         \o to_html(error)
         \o <<"</body>\n</html>">>
    ELSE to_text(error)

(***************************************************************************)
(* Inputs of the model                                                     *)
(***************************************************************************)
Codes == {<<"p">>, <<"P">>}

\* description, severity, system, possible_causes, recommended_actions
Profiles ==
    { << <<"a", "b">>, <<"H">>, <<"E">>, <<"a", "|", "b">>, <<"c">> >>,
      << <<"B">>, <<"h">>, <<"e">>, <<"c">>, <<"A", " ", "b">> >>,
      << <<"c">>, <<"L">>, <<"a", "b">>, <<"c", "|", "c">>, <<"c">> >> }

GoodRows == {<<c>> \o f : c \in Codes, f \in Profiles}

\* a row with a column missing
BadRows == {<< <<"p">>, <<"a", "b">>, <<"H">>, <<"E">>, <<"a", "|", "b">> >>}

Rows == GoodRows \cup BadRows

Sources == UNION {[1..n -> Rows] : n \in 0..MaxRows}

\* arguments of the command line's subcommands
Args == {<<>>, <<"p">>, <<"P">>, <<"a", "b">>, <<"A", "B">>, <<"b">>, <<"e">>,
         <<"h">>, <<"a", "|", "B">>, <<"a", " ", "B">>, <<"z">>}

ExportPaths == {<<"r", ".", "h", "t", "m", "l">>, <<"r", ".", "t", "x", "t">>,
                <<"h", "t", "m", "l">>}

\* lines of standard input, each with its line break
Lines ==
    { <<"\n">>, <<" ", " ", "\n">>,
      <<"e", "x", "i", "t", "\n">>, <<"Q", "U", "I", "T", "\n">>,
      <<" ", "E", "x", "i", "t", " ", "n", "o", "w", "\n">>,
      <<"e", "x", "i", "t", "s", "\n">>,
      <<"h", "e", "l", "p", "\n">>,
      <<"l", "o", "o", "k", "u", "p", "\n">>,
      <<"l", "o", "o", "k", "u", "p", " ", "p", "\n">>,
      <<"L", "O", "O", "K", "U", "P", " ", "P", "\n">>,
      <<"s", "y", "s", "t", "e", "m", " ", "e", "\n">>,
      <<"s", "y", "s", "t", "e", "m", "\n">>,
      <<"s", "e", "v", "e", "r", "i", "t", "y", " ", "H", "\n">>,
      <<"s", "e", "v", "e", "r", "i", "t", "y", "\n">>,
      <<"s", "e", "a", "r", "c", "h", " ", "a", "b", "\n">>,
      <<"s", "e", "a", "r", "c", "h", " ", "B", " ", "z", "\n">>,
      <<"s", "e", "a", "r", "c", "h", "\n">> }

(***************************************************************************)
(* State                                                                   *)
(***************************************************************************)
VARIABLES
    fileStatus,   \* the data file: "missing", "unreadable" or "ok"
    source,       \* the rows of the data file after its header
    errors,       \* db.errors
    loadResult,   \* what load_from_csv returned: "none" (not called), "Ok", "Err"
    pc,           \* where main is: "start", "cli", "export", "prompt", "read", "done"
    result,       \* how the process ended: "none", "Ok", "Err", "Usage"
    query,        \* the last query made of db: <<name, argument>>, or <<>>
    found,        \* what that query returned, a sequence of records
    stdinEof,     \* standard input has reached its end
    input,        \* the line buffer of run_interactive_mode
    rendered      \* the content of the exported report file

vars == <<fileStatus, source, errors, loadResult, pc, result, query, found,
          stdinEof, input, rendered>>

NoQuery == <<>>

Init ==
    /\ fileStatus \in {"missing", "unreadable", "ok"}
    /\ source \in Sources
    /\ fileStatus # "ok" => source = <<>>
    /\ errors = DiagnosticsDatabase_new
    /\ loadResult = "none"
    /\ pc = "start"
    /\ result = "none"
    /\ query = NoQuery
    /\ found = <<>>
    /\ stdinEof = FALSE
    /\ input = <<>>
    /\ rendered = <<>>

(***************************************************************************)
(* main, lines 342-356: the existence check and the load                   *)
(***************************************************************************)
\* main going on to the command line whatever the load returned
after_load_ignore(ok) == [pc |-> "cli", result |-> "none"]

\* what main does with the result of the load: `?` returns the error
after_load(ok) == IF ok THEN [pc |-> "cli", result |-> "none"]
                  ELSE [pc |-> "done", result |-> "Err"]

MainLoad ==
    /\ pc = "start"
    /\ fileStatus # "missing"
    /\ LET r == load_from_csv(errors, fileStatus, source)
       IN  /\ errors' = r.errors
           /\ loadResult' = (IF r.ok THEN "Ok" ELSE "Err")
           /\ pc' = after_load(r.ok).pc
           /\ result' = after_load(r.ok).result
    /\ UNCHANGED <<fileStatus, source, query, found, stdinEof, input, rendered>>

MainFileMissing ==
    /\ pc = "start"
    /\ fileStatus = "missing"
    /\ pc' = "done"
    /\ result' = "Ok"
    /\ UNCHANGED <<fileStatus, source, errors, loadResult, query, found,
                   stdinEof, input, rendered>>

(***************************************************************************)
(* A query of the database through &self                                   *)
(***************************************************************************)
\* a query that takes the records out of the map as it answers
run_query_draining(name, arg, order) ==
    /\ query' = <<name, arg>>
    /\ found' = CASE name = "lookup" -> lookup_error(errors, arg)
                  [] name = "system" -> list_errors_by_system(errors, order, arg)
                  [] name = "severity" -> list_errors_by_severity(errors, order, arg)
                  [] name = "search" -> search_by_keyword(errors, order, arg)
    /\ errors' = [c \in DOMAIN errors \ {found'[i].code : i \in 1..Len(found')} |-> errors[c]]

run_query(name, arg, order) ==
    /\ query' = <<name, arg>>
    /\ found' = CASE name = "lookup" -> lookup_error(errors, arg)
                  [] name = "system" -> list_errors_by_system(errors, order, arg)
                  [] name = "severity" -> list_errors_by_severity(errors, order, arg)
                  [] name = "search" -> search_by_keyword(errors, order, arg)
    /\ errors' = errors

(***************************************************************************)
(* main, lines 358-416: the subcommand given on the command line           *)
(***************************************************************************)
\* Cli::parse() rejects the arguments: clap reports the usage and exits
CliUsageError ==
    /\ pc = "cli"
    /\ pc' = "done"
    /\ result' = "Usage"
    /\ UNCHANGED <<fileStatus, source, errors, loadResult, query, found,
                   stdinEof, input, rendered>>

\* Commands::Lookup: a record found is displayed, and exported when asked
CmdLookup ==
    /\ pc = "cli"
    /\ \E code \in Args : run_query("lookup", code, <<>>)
    /\ IF found' # <<>>
       THEN pc' = "export" /\ result' = result
       ELSE pc' = "done" /\ result' = "Ok"
    /\ UNCHANGED <<fileStatus, source, loadResult, stdinEof, input, rendered>>

\* `if let Some(file_path) = export`: export_to_file writes the report; a
\* failure of the file system is reported and main goes on
ExportReport ==
    /\ pc = "export"
    /\ \E file_path \in ExportPaths, created \in BOOLEAN :
          rendered' = IF created THEN export_content(found[1], file_path)
                      ELSE rendered
    /\ pc' = "done"
    /\ result' = "Ok"
    /\ UNCHANGED <<fileStatus, source, errors, loadResult, query, found,
                   stdinEof, input>>

\* no --export option
NoExport ==
    /\ pc = "export"
    /\ pc' = "done"
    /\ result' = "Ok"
    /\ UNCHANGED <<fileStatus, source, errors, loadResult, query, found,
                   stdinEof, input, rendered>>

CmdListBySystem ==
    /\ pc = "cli"
    /\ \E system \in Args, order \in Orders(errors) :
          run_query("system", system, order)
    /\ pc' = "done"
    /\ result' = "Ok"
    /\ UNCHANGED <<fileStatus, source, loadResult, stdinEof, input, rendered>>

CmdListBySeverity ==
    /\ pc = "cli"
    /\ \E severity \in Args, order \in Orders(errors) :
          run_query("severity", severity, order)
    /\ pc' = "done"
    /\ result' = "Ok"
    /\ UNCHANGED <<fileStatus, source, loadResult, stdinEof, input, rendered>>

CmdSearch ==
    /\ pc = "cli"
    /\ \E keyword \in Args, order \in Orders(errors) :
          run_query("search", keyword, order)
    /\ pc' = "done"
    /\ result' = "Ok"
    /\ UNCHANGED <<fileStatus, source, loadResult, stdinEof, input, rendered>>

\* Commands::Interactive: run_interactive_mode is entered
CmdInteractive ==
    /\ pc = "cli"
    /\ pc' = "prompt"
    /\ input' = <<>>
    /\ UNCHANGED <<fileStatus, source, errors, loadResult, result, query,
                   found, stdinEof, rendered>>

(***************************************************************************)
(* run_interactive_mode, lines 239-336: one turn of the loop               *)
(***************************************************************************)
\* print the prompt, flush, clear the buffer; `?` returns an I/O error
Prompt ==
    /\ pc = "prompt"
    /\ \E flushed \in BOOLEAN :
          IF flushed
          THEN pc' = "read" /\ result' = result /\ input' = <<>>
          ELSE pc' = "done" /\ result' = "Err" /\ input' = input
    /\ UNCHANGED <<fileStatus, source, errors, loadResult, query, found,
                   stdinEof, rendered>>

\* where the loop goes after a line: "exit" and "quit" break out of it,
\* everything else goes round again
after_line(line) ==
    LET parts == split_whitespace(trim(line))
    IN  IF trim(line) = <<>> THEN "prompt"
        ELSE IF to_lowercase(parts[1]) \in {<<"e", "x", "i", "t">>, <<"q", "u", "i", "t">>}
             THEN "done"
             ELSE "prompt"

\* the query a line asks for, if any: <<name, argument>> or <<>>
line_query(line) ==
    LET parts == split_whitespace(trim(line))
        command == to_lowercase(parts[1])
    IN  IF trim(line) = <<>> \/ Len(parts) < 2 THEN <<>>
        ELSE IF command = <<"l", "o", "o", "k", "u", "p">> THEN <<"lookup", parts[2]>>
        ELSE IF command = <<"s", "y", "s", "t", "e", "m">> THEN <<"system", parts[2]>>
        ELSE IF command = <<"s", "e", "v", "e", "r", "i", "t", "y">>
             THEN <<"severity", parts[2]>>
        ELSE IF command = <<"s", "e", "a", "r", "c", "h">> THEN <<"search", parts[2]>>
        ELSE <<>>

\* read_line appended `line` to the buffer (nothing at the end of input);
\* the command is matched and carried out
handle_line(line) ==
    /\ input' = line
    /\ pc' = after_line(line)
    /\ result' = IF after_line(line) = "done" THEN "Ok" ELSE result
    /\ IF line_query(line) # <<>>
       THEN \E order \in Orders(errors) :
               run_query(line_query(line)[1], line_query(line)[2], order)
       ELSE UNCHANGED <<errors, query, found>>

\* read_line returns a line of standard input
ReadLine ==
    /\ pc = "read"
    /\ ~stdinEof
    /\ \E line \in Lines : handle_line(line)
    /\ UNCHANGED <<fileStatus, source, loadResult, stdinEof, rendered>>

\* read_line returns Ok(0): standard input is at its end
ReadEof ==
    /\ pc = "read"
    /\ stdinEof' = TRUE
    /\ handle_line(<<>>)
    /\ UNCHANGED <<fileStatus, source, loadResult, rendered>>

\* read_line returns an error, which `?` returns
ReadError ==
    /\ pc = "read"
    /\ pc' = "done"
    /\ result' = "Err"
    /\ UNCHANGED <<fileStatus, source, errors, loadResult, query, found,
                   stdinEof, input, rendered>>

Next ==
    \/ MainLoad
    \/ MainFileMissing
    \/ CliUsageError
    \/ CmdLookup
    \/ ExportReport
    \/ NoExport
    \/ CmdListBySystem
    \/ CmdListBySeverity
    \/ CmdSearch
    \/ CmdInteractive
    \/ Prompt
    \/ ReadLine
    \/ ReadEof
    \/ ReadError

Spec == Init /\ [][Next]_vars

(***************************************************************************)
(* The renderings on their own: a record with every possible_causes and    *)
(* recommended_actions of up to MaxLen characters has been loaded and      *)
(* looked up, and is exported.                                             *)
(***************************************************************************)
RenderChars == {"a", " ", "|"}

RenderStrings == UNION {[1..n -> RenderChars] : n \in 0..MaxLen}

RenderInit ==
    /\ fileStatus = "ok"
    /\ \E causes \in RenderStrings, actions \in RenderStrings :
          source = << << <<"p">>, <<"a", "b">>, <<"H">>, <<"E">>, causes, actions >> >>
    /\ errors = load_from_csv(DiagnosticsDatabase_new, fileStatus, source).errors
    /\ loadResult = "Ok"
    /\ pc = "export"
    /\ result = "none"
    /\ query = <<"lookup", <<"p">> >>
    /\ found = lookup_error(errors, <<"p">>)
    /\ stdinEof = FALSE
    /\ input = <<>>
    /\ rendered = <<>>

RenderNext == ExportReport \/ NoExport

RenderSpec == RenderInit /\ [][RenderNext]_vars

(***************************************************************************)
(* Properties.  The definitions below state what the records, the index    *)
(* and the renderings should be, without using the operators above.        *)
(***************************************************************************)
SetOf(seq) == {seq[i] : i \in 1..Len(seq)}

Stored == {errors[c] : c \in DOMAIN errors}

NoRepeats(seq) == \A i, j \in 1..Len(seq) : seq[i] = seq[j] => i = j

\* the same character up to the case of a letter
SameLetter(c, d) ==
    c = d \/ \E i \in 1..Len(Upper) : {c, d} = {Upper[i], Lower[i]}

EqualIgnoreCase(a, b) ==
    Len(a) = Len(b) /\ \A i \in 1..Len(a) : SameLetter(a[i], b[i])

OccursIgnoreCase(k, s) ==
    \E i \in 0..(Len(s) - Len(k)) : \A j \in 1..Len(k) : SameLetter(s[i + j], k[j])

AllParse(rows) == \A i \in 1..Len(rows) : Len(rows[i]) = NumFields

LastRowWith(c) ==
    CHOOSE i \in 1..Len(source) :
        /\ source[i][1] = c
        /\ \A j \in (i + 1)..Len(source) : source[j][1] # c

\* C1: after a load that succeeded, the index holds exactly the codes of the
\* source, and lookup_error of each returns the six fields of the last row
\* of the source that carries the code.
C1_LastWriteWins ==
    loadResult = "Ok" =>
        /\ AllParse(source)
        /\ DOMAIN errors = {source[i][1] : i \in 1..Len(source)}
        /\ \A c \in {source[i][1] : i \in 1..Len(source)} :
              LET row == source[LastRowWith(c)]
                  hit == lookup_error(errors, c)
              IN  /\ Len(hit) = 1
                  /\ hit[1].code = row[1]
                  /\ hit[1].description = row[2]
                  /\ hit[1].severity = row[3]
                  /\ hit[1].system = row[4]
                  /\ hit[1].possible_causes = row[5]
                  /\ hit[1].recommended_actions = row[6]

\* two rows with the same code and different fields were loaded
C1_Witness ==
    /\ loadResult = "Ok"
    /\ Len(source) = 2
    /\ source[1][1] = source[2][1]
    /\ source[1] # source[2]

\* C2: after a load that returned an error, the index holds no record.
C2_FailedLoadLeavesIndexEmpty ==
    loadResult = "Err" => DOMAIN errors = {}

\* C3: a query, the command line, an export or the interactive loop is
\* reached only after load_from_csv returned Ok, which it does only for a
\* readable file whose rows all parse; after a failed or skipped load the
\* process has ended without a query.
C3_NoQueryWithoutLoad ==
    /\ (query # NoQuery \/ pc \in {"cli", "export", "prompt", "read"})
          => loadResult = "Ok"
    /\ loadResult = "Ok" => (fileStatus = "ok" /\ AllParse(source))
    /\ (pc # "start" /\ (fileStatus # "ok" \/ ~AllParse(source)))
          => (pc = "done" /\ query = NoQuery /\ found = <<>> /\ loadResult # "Ok")

\* a load failed on a row behind a well-formed one, and the process ended
C3_Witness ==
    /\ loadResult = "Err"
    /\ pc = "done"
    /\ Len(source) = 2
    /\ Len(source[1]) = NumFields

\* C4: list_errors_by_system(s) returns, each once, exactly the stored
\* records whose system equals s up to the case of letters, and
\* list_errors_by_severity(s) the same on severity.
C4_CaseInsensitiveFilter ==
    /\ (query # NoQuery /\ query[1] = "system") =>
          /\ NoRepeats(found)
          /\ SetOf(found) = {r \in Stored : EqualIgnoreCase(r.system, query[2])}
    /\ (query # NoQuery /\ query[1] = "severity") =>
          /\ NoRepeats(found)
          /\ SetOf(found) = {r \in Stored : EqualIgnoreCase(r.severity, query[2])}

\* a filter by system returned two records whose systems differ in case
C4_Witness ==
    /\ query # NoQuery
    /\ query[1] = "system"
    /\ Len(found) = 2
    /\ found[1].system # found[2].system

\* C5: search_by_keyword(k) returns exactly the stored records in whose
\* description, possible_causes or recommended_actions k occurs up to the
\* case of letters; a record with k only in its code, severity or system
\* is not returned.
C5_SearchScope ==
    (query # NoQuery /\ query[1] = "search") =>
        /\ SetOf(found) =
              {r \in Stored : \/ OccursIgnoreCase(query[2], r.description)
                              \/ OccursIgnoreCase(query[2], r.possible_causes)
                              \/ OccursIgnoreCase(query[2], r.recommended_actions)}
        /\ \A r \in Stored :
              (/\ ~OccursIgnoreCase(query[2], r.description)
               /\ ~OccursIgnoreCase(query[2], r.possible_causes)
               /\ ~OccursIgnoreCase(query[2], r.recommended_actions)
               /\ \/ OccursIgnoreCase(query[2], r.code)
                  \/ OccursIgnoreCase(query[2], r.severity)
                  \/ OccursIgnoreCase(query[2], r.system))
              => r \notin SetOf(found)

\* a search returned a record that has the keyword, in another case, in its
\* description, and left out a stored record that has it in its system only
C5_Witness ==
    /\ query = <<"search", <<"A", "B">> >>
    /\ Len(found) = 1
    /\ \E r \in Stored : r.system = <<"a", "b">> /\ r \notin SetOf(found)
    /\ \E r \in Stored : r.description = <<"a", "b">> /\ r \in SetOf(found)

\* C6: search_by_keyword("") returns every stored record exactly once.
C6_EmptyKeywordTotal ==
    query = <<"search", <<>> >> =>
        /\ SetOf(found) = Stored
        /\ NoRepeats(found)
        /\ Len(found) = Cardinality(DOMAIN errors)

\* the empty keyword was searched in an index of two records
C6_Witness ==
    /\ query = <<"search", <<>> >>
    /\ Cardinality(DOMAIN errors) = 2
    /\ Len(found) = 2

\* C7: lookup_error(c) returns the stored record whose code is c, character
\* for character, and nothing when no stored code is c, also when one
\* differs from c in case only: absence is an empty answer.
C7_ExactLookup ==
    (query # NoQuery /\ query[1] = "lookup") =>
        /\ Len(found) <= 1
        /\ \A i \in 1..Len(found) : found[i] \in Stored /\ found[i].code = query[2]
        /\ found = <<>> <=> ~(\E r \in Stored : r.code = query[2])

\* a code stored in lower case was looked up in upper case and not found
C7_Witness ==
    /\ query = <<"lookup", <<"P">> >>
    /\ found = <<>>
    /\ DOMAIN errors = {<<"p">>}
    /\ pc = "done"

(***************************************************************************)
(* The rendered report, read back.                                         *)
(***************************************************************************)
\* the positions of the delimiter in s, and the k-th of them (0 before the
\* first character, Len(s) + 1 behind the last)
PipesOf(s) == {i \in 1..Len(s) : s[i] = "|"}

Cut(s, k) ==
    IF k = 0 THEN 0
    ELSE IF k > Cardinality(PipesOf(s)) THEN Len(s) + 1
    ELSE CHOOSE i \in PipesOf(s) : Cardinality({j \in PipesOf(s) : j < i}) = k - 1

\* t without its leading and trailing whitespace
Stripped(t) ==
    LET inked == {i \in 1..Len(t) : t[i] \notin {" ", "\t", "\n", "\r"}}
    IN  IF inked = {} THEN <<>>
        ELSE SubSeq(t, CHOOSE i \in inked : \A j \in inked : i <= j,
                       CHOOSE i \in inked : \A j \in inked : j <= i)

\* one entry for each of the n pieces that n - 1 delimiters make of s, in
\* the order of s, each stripped
Segments(s) ==
    [k \in 1..(Cardinality(PipesOf(s)) + 1) |->
        Stripped(SubSeq(s, Cut(s, k - 1) + 1, Cut(s, k) - 1))]

\* the entries written from position i of the text on, each from an opening
\* piece to the next closing piece
RECURSIVE EntriesFrom(_, _, _, _)
EntriesFrom(text, i, open, close) ==
    IF i > Len(text) \/ text[i] # open THEN <<>>
    ELSE LET j == CHOOSE j \in (i + 1)..Len(text) :
                      /\ text[j] = close
                      /\ \A m \in (i + 1)..(j - 1) : text[m] # close
         IN  <<SubSeq(text, i + 1, j - 1)>> \o EntriesFrom(text, j + 1, open, close)

\* the entries under a heading of the text
EntriesUnder(text, heading, open, close) ==
    IF \E i \in 1..Len(text) : text[i] = heading
    THEN EntriesFrom(text, (CHOOSE i \in 1..Len(text) : text[i] = heading) + 1,
                     open, close)
    ELSE <<"no heading">>

IsHtmlReport(text) == text # <<>> /\ text[1] = "<!DOCTYPE html>\n<html>\n<head>\n"

\* C8: a report written for a record has, under each of its two headings,
\* one bullet line (text) or one list item (HTML) for each of the n pieces
\* that n - 1 delimiters make of the field, in order, each stripped of
\* surrounding whitespace, the empty ones included.
C8_DelimiterRendering ==
    rendered # <<>> =>
        IF IsHtmlReport(rendered)
        THEN /\ EntriesUnder(rendered, "<h3>Possible Causes:</h3>\n<ul>\n",
                             "<li>", "</li>\n")
                   = Segments(found[1].possible_causes)
             /\ EntriesUnder(rendered, "<h3>Recommended Actions:</h3>\n<ul>\n",
                             "<li>", "</li>\n")
                   = Segments(found[1].recommended_actions)
        ELSE /\ EntriesUnder(rendered, "\nPossible Causes:\n", "  - ", "\n")
                   = Segments(found[1].possible_causes)
             /\ EntriesUnder(rendered, "\nRecommended Actions:\n", "  - ", "\n")
                   = Segments(found[1].recommended_actions)

\* an HTML report was written for causes with a padded piece, an empty
\* piece between two delimiters and an empty piece behind the last one
C8_Witness ==
    /\ IsHtmlReport(rendered)
    /\ found[1].possible_causes = <<" ", "|", "|">>
    /\ found[1].recommended_actions = <<"a", " ", "|">>

\* C9: the mapping changes only in the load, which happens once, at the
\* start and before any query; a query leaves the mapping as it is, and the
\* same query asked again returns the same records.
C9_ReadOnlyAfterLoad ==
    [][/\ errors' # errors =>
             (pc = "start" /\ loadResult = "none" /\ query = NoQuery)
       /\ loadResult # "none" => (loadResult' = loadResult /\ errors' = errors)
       /\ pc # "start" => pc' # "start"
       /\ query' # query => errors' = errors
       /\ (query # NoQuery /\ query' = query) => SetOf(found') = SetOf(found)
      ]_vars

\* in the interactive loop, a query of a loaded index has returned records
C9_Witness ==
    /\ pc = "prompt"
    /\ query # NoQuery
    /\ found # <<>>
    /\ input # <<>>

\* C10: run_interactive_mode leaves its loop when read_line finds standard
\* input at its end.
C10_EndOfInputLeavesLoop ==
    [][(pc = "read" /\ stdinEof') => pc' = "done"]_vars

=============================================================================
